---------------------------- MODULE Spec2Model ----------------------------
(***************************************************************************)
(* Model of app.py: a Flask service that loads a YOLO detector at import   *)
(* time, stores every uploaded payload under a second-granular timestamp   *)
(* name, runs the detector on the stored file and answers with the most    *)
(* confident detection.  Requests are handled concurrently (one thread per *)
(* request), so the upload handler is split at each access to shared       *)
(* state: the clock, the upload directory and the detector.                *)
(***************************************************************************)
EXTENDS Integers, Sequences, FiniteSets, TLC

(* Bounds of the model. *)
NumRequests == 2        \* upload requests the clients send
MaxClock == 2           \* wall clock, in half-second ticks
MaxBoxes == 3           \* boxes in one detector result

Requests == 1..NumRequests
Ticks == 0..MaxClock

(* The two requests of the "same bytes submitted twice" scenario, and the  *)
(* single request of the selection scenario.                               *)
TwiceRequests == {1, 2}
SelectRequests == {1}

VARIABLES
    boot,       \* position of the module's top-level code
    asMain,     \* TRUE: run as a script (__name__ == "__main__"); FALSE: imported by a server
    model,      \* the module-level name `model`: "none" until a load succeeds
    loads,      \* how often each load was attempted
    routes,     \* URL rules registered on `app`
    clock,      \* datetime.datetime.now(), in half-second ticks
    files,      \* the uploads directory: file name -> content, or Absent
    pc,         \* per upload request: position in upload()
    body,       \* per request: img_bytes
    ts,         \* per request: the timestamp string of line 52
    opened,     \* per request: whether open(filepath, "wb") created or truncated the file
    ioError,    \* per request: whether the open or the write raised
    seen,       \* per request: the content the detector read from filepath
    results,    \* per request: what model(filepath)[0] returned or raised
    resp,       \* per request: the responses sent, in order
    healthResp  \* the answer to the latest GET /health

vars == <<boot, asMain, model, loads, routes, clock, files, pc, body, ts,
          opened, ioError, seen, results, resp, healthResp>>

startupVars == <<boot, asMain, model, loads, routes>>
requestVars == <<pc, body, ts, opened, ioError, seen, results, resp>>

-----------------------------------------------------------------------------
(* Payloads.  A byte sequence is an image when it starts with the marker   *)
(* byte; the detector is a deterministic function of the image content,    *)
(* here one box per byte after the marker.                                 *)

Marker == <<255>>

AllPayloads ==
    { <<>>,               \* zero-length body
      <<7>>,              \* random bytes
      <<255>>,            \* an image without detections
      <<255, 255>>,       \* an image for which the result carries no boxes
      <<255, 3>>,         \* one detection
      <<255, 1, 7>>,      \* two detections, the second more confident
      <<255, 7, 2>>,      \* two equally confident detections
      <<255, 15>> }       \* a detection of a class id outside the name table

(* The bodies sent by the concurrent clients. *)
Payloads == { <<>>, <<7>>, <<255, 1, 7>>, <<255, 15>> }

Absent == <<-1>>
NotRead == <<-2>>
NoResults == [exc |-> "not run", hasBoxes |-> FALSE, boxes |-> <<>>]

(* The image codec of the spec's decode validation (cv2.imdecode). *)
Decodes(b) == Len(b) >= 1 /\ SubSeq(b, 1, 1) = Marker

(* Confidence scores, in units of 1/10000. *)
ConfLevel == <<50, 6200, 9104, 9196, 10000>>

BoxOf(v) == [cls |-> v \div 5, conf |-> ConfLevel[(v % 5) + 1]]

(* results = model(filepath)[0]: raises on an unreadable image, else the   *)
(* boxes detected in the content.                                          *)
DetectorRun(content) ==
    IF ~Decodes(content)
    THEN [exc |-> "Image Read Error", hasBoxes |-> FALSE, boxes |-> <<>>]
    ELSE IF content = <<255, 255>>
    THEN [exc |-> "", hasBoxes |-> FALSE, boxes |-> <<>>]
    ELSE [exc |-> "", hasBoxes |-> TRUE,
          boxes |-> [i \in 1..(Len(content) - 1) |-> BoxOf(content[i + 1])]]

(* model.names of the loaded handle. *)
NamesOf(m) ==
    IF m = "primary" THEN (0 :> "acne" @@ 1 :> "eczema")
    ELSE IF m = "fallback" THEN (0 :> "person" @@ 1 :> "bicycle" @@ 2 :> "car")
    ELSE << >>

RECURSIVE ArgmaxScan(_, _, _)
\* A scan that keeps the last maximal score instead of the first.
ArgmaxScanLast(boxes, i, best) ==
    IF i > Len(boxes) THEN best
    ELSE ArgmaxScan(boxes, i + 1,
                    IF boxes[i].conf >= boxes[best].conf THEN i ELSE best)

(* boxes.conf.argmax(): index of the first maximal score, by a left to     *)
(* right scan keeping the best index so far.                               *)
ArgmaxScan(boxes, i, best) ==
    IF i > Len(boxes) THEN best
    ELSE ArgmaxScan(boxes, i + 1,
                    IF boxes[i].conf > boxes[best].conf THEN i ELSE best)

Argmax(boxes) == ArgmaxScan(boxes, 2, 1)

(* f"{conf * 100:.1f}%": the percentage rounded to one decimal place.      *)
FormatConfidence(conf) ==
    LET tenths == (conf + 5) \div 10
    IN  ToString(tenths \div 10) \o "." \o ToString(tenths % 10) \o "%"

(* Lines 69-94: the selection on the detector's result, with the         *)
(* exception handler's view of it: ok, or the text of the exception.       *)
Select(m, res) ==
    IF res.exc # ""
    THEN [ok |-> FALSE, error |-> res.exc, label |-> "", confidence |-> ""]
    ELSE IF ~res.hasBoxes \/ Len(res.boxes) = 0
    THEN [ok |-> TRUE, error |-> "", label |-> "No disease", confidence |-> "0%"]
    ELSE LET best_idx == Argmax(res.boxes)
             cls_id == res.boxes[best_idx].cls
             conf == res.boxes[best_idx].conf
         IN  IF cls_id \notin DOMAIN NamesOf(m)
             THEN [ok |-> FALSE, error |-> ToString(cls_id),      \* KeyError
                   label |-> "", confidence |-> ""]
             ELSE [ok |-> TRUE, error |-> "", label |-> NamesOf(m)[cls_id],
                   confidence |-> FormatConfidence(conf)]

(* strftime("%Y%m%d_%H%M%S"): the sub-second part of the clock is dropped. *)
Stamp(t) == t \div 2

\* A file name that ignores the timestamp.
FileNameFixed(stamp) == <<"image_", 0, ".jpg">>

(* filename = f"image_{ts}.jpg" *)
FileName(stamp) == <<"image_", stamp, ".jpg">>

FileNames == { FileName(Stamp(t)) : t \in Ticks }

(* f.write(img_bytes) on a descriptor positioned at 0: the bytes replace   *)
(* the start of whatever the file holds by then.                           *)
WriteAt0(old, b) ==
    IF old = Absent \/ Len(old) <= Len(b) THEN b
    ELSE b \o SubSeq(old, Len(b) + 1, Len(old))

(* The JSON responses of the handlers. *)
NoImageData == [code |-> 400, status |-> "error", message |-> "No image data"]
InvalidImageData == [code |-> 400, status |-> "error", message |-> "Invalid image data"]
FailedToSave == [code |-> 500, status |-> "error", message |-> "Failed to save image"]
InferenceFailed(text) ==
    [code |-> 500, status |-> "error", message |-> "Model inference failed",
     error |-> text]
Success(filename, label, confidence) ==
    [code |-> 200, status |-> "success", image |-> filename,
     result |-> label, confidence |-> confidence]
NotFound == [code |-> 404, status |-> "not found"]
NoResponse == [code |-> 0, status |-> "none"]

-----------------------------------------------------------------------------
Init ==
    /\ boot = "load_primary"
    /\ asMain \in BOOLEAN
    /\ model = "none"
    /\ loads = [primary |-> 0, fallback |-> 0]
    /\ routes = {}
    /\ clock = 0
    /\ files = [f \in FileNames |-> Absent]
    /\ pc = [r \in Requests |-> "idle"]
    /\ body = [r \in Requests |-> <<>>]
    /\ ts = [r \in Requests |-> 0]
    /\ opened = [r \in Requests |-> FALSE]
    /\ ioError = [r \in Requests |-> FALSE]
    /\ seen = [r \in Requests |-> NotRead]
    /\ results = [r \in Requests |-> NoResults]
    /\ resp = [r \in Requests |-> <<>>]
    /\ healthResp = NoResponse


-----------------------------------------------------------------------------
(* Module top level, lines 22-40: the model is loaded before any route     *)
(* exists.  Whether a load succeeds is decided by the environment.         *)

LoadPrimary(ok) ==
    /\ boot = "load_primary"
    /\ loads' = [loads EXCEPT !.primary = @ + 1]
    /\ IF ok
       THEN model' = "primary" /\ boot' = "register_upload"
       ELSE model' = model /\ boot' = "load_fallback"
    /\ UNCHANGED <<asMain, routes, clock, files, requestVars, healthResp>>

(* LoadFallback without the raise of line 40. *)
LoadFallbackSwallow(ok) ==
    /\ boot = "load_fallback"
    /\ loads' = [loads EXCEPT !.fallback = @ + 1]
    /\ IF ok
       THEN model' = "fallback" /\ boot' = "register_upload"
       ELSE model' = model /\ boot' = "register_upload"
    /\ UNCHANGED <<asMain, routes, clock, files, requestVars, healthResp>>

(* Lines 31-40: the one fallback load; its failure ends the import. *)
LoadFallback(ok) ==
    /\ boot = "load_fallback"
    /\ loads' = [loads EXCEPT !.fallback = @ + 1]
    /\ IF ok
       THEN model' = "fallback" /\ boot' = "register_upload"
       ELSE model' = model /\ boot' = "aborted"       \* raise: the import fails
    /\ UNCHANGED <<asMain, routes, clock, files, requestVars, healthResp>>

(* Line 43: @app.route("/upload") *)
RegisterUpload ==
    /\ boot = "register_upload"
    /\ routes' = routes \cup {"/upload"}
    /\ boot' = "main_guard"
    /\ UNCHANGED <<asMain, model, loads, clock, files, requestVars, healthResp>>

(* Lines 105-107: as a script, app.run() starts serving and does not       *)
(* return; the rest of the module is not executed while the server runs.   *)
MainGuard ==
    /\ boot = "main_guard"
    /\ boot' = IF asMain THEN "serving" ELSE "register_health"
    /\ UNCHANGED <<asMain, model, loads, routes, clock, files, requestVars,
                   healthResp>>

(* Line 110: @app.route("/health"), reached only when the module is        *)
(* imported; the importing server then serves the app.                     *)
RegisterHealth ==
    /\ boot = "register_health"
    /\ routes' = routes \cup {"/health"}
    /\ boot' = "serving"
    /\ UNCHANGED <<asMain, model, loads, clock, files, requestVars, healthResp>>

Tick ==
    /\ boot = "serving"
    /\ clock < MaxClock
    /\ clock' = clock + 1
    /\ UNCHANGED <<startupVars, files, requestVars, healthResp>>

-----------------------------------------------------------------------------
(* upload(), lines 44-102. *)

Reply(r, answer) == [resp EXCEPT ![r] = Append(@, answer)]

(* Receive without the emptiness check of line 48. *)
ReceiveNoCheck(r, b) ==
    /\ boot = "serving"
    /\ "/upload" \in routes
    /\ pc[r] = "idle"
    /\ \A q \in Requests : q < r => pc[q] # "idle"
    /\ body' = [body EXCEPT ![r] = b]
    /\ resp' = resp
    /\ pc' = [pc EXCEPT ![r] = "validated"]
    /\ ts' = [ts EXCEPT ![r] = Stamp(clock)]
    /\ UNCHANGED <<startupVars, clock, files, opened, ioError, seen, results,
                   healthResp>>

(* Lines 46-54: read the body, reject an empty one, else take the          *)
(* timestamp that names the file.                                          *)
Receive(r, b) ==
    /\ boot = "serving"
    /\ "/upload" \in routes
    /\ pc[r] = "idle"
    /\ \A q \in Requests : q < r => pc[q] # "idle"    \* numbered as they arrive
    /\ body' = [body EXCEPT ![r] = b]
    /\ IF b = <<>>
       THEN /\ resp' = Reply(r, NoImageData)
            /\ pc' = [pc EXCEPT ![r] = "failed"]
            /\ ts' = ts
       ELSE /\ resp' = resp
            /\ pc' = [pc EXCEPT ![r] = "validated"]
            /\ ts' = [ts EXCEPT ![r] = Stamp(clock)]
    /\ UNCHANGED <<startupVars, clock, files, opened, ioError, seen, results,
                   healthResp>>

(* OpenFile whose exception handler lacks the return of line 62. *)
OpenFileNoReturn(r, ok) ==
    /\ pc[r] = "validated"
    /\ IF ok
       THEN /\ files' = [files EXCEPT ![FileName(ts[r])] = <<>>]
            /\ opened' = [opened EXCEPT ![r] = TRUE]
            /\ pc' = [pc EXCEPT ![r] = "opened"]
            /\ resp' = resp
            /\ ioError' = ioError
       ELSE /\ resp' = Reply(r, FailedToSave)
            /\ ioError' = [ioError EXCEPT ![r] = TRUE]
            /\ pc' = [pc EXCEPT ![r] = "stored"]
            /\ UNCHANGED <<files, opened>>
    /\ UNCHANGED <<startupVars, clock, body, ts, seen, results, healthResp>>

(* Line 57: open(filepath, "wb") creates or truncates the file, or raises. *)
OpenFile(r, ok) ==
    /\ pc[r] = "validated"
    /\ IF ok
       THEN /\ files' = [files EXCEPT ![FileName(ts[r])] = <<>>]
            /\ opened' = [opened EXCEPT ![r] = TRUE]
            /\ pc' = [pc EXCEPT ![r] = "opened"]
            /\ resp' = resp
            /\ ioError' = ioError
       ELSE /\ resp' = Reply(r, FailedToSave)
            /\ ioError' = [ioError EXCEPT ![r] = TRUE]
            /\ pc' = [pc EXCEPT ![r] = "failed"]
            /\ UNCHANGED <<files, opened>>
    /\ UNCHANGED <<startupVars, clock, body, ts, seen, results, healthResp>>

(* Lines 58-62: f.write(img_bytes) and the close.  k bytes reach the file; *)
(* fewer than all of them means the write raised.                          *)
WriteFile(r, k) ==
    /\ pc[r] = "opened"
    /\ k \in 0..Len(body[r])
    /\ files' = [files EXCEPT ![FileName(ts[r])] =
                     IF k = 0 THEN @ ELSE WriteAt0(@, SubSeq(body[r], 1, k))]
    /\ IF k = Len(body[r])
       THEN /\ pc' = [pc EXCEPT ![r] = "stored"]
            /\ resp' = resp
            /\ ioError' = ioError
       ELSE /\ pc' = [pc EXCEPT ![r] = "failed"]
            /\ resp' = Reply(r, FailedToSave)
            /\ ioError' = [ioError EXCEPT ![r] = TRUE]
    /\ UNCHANGED <<startupVars, clock, body, ts, opened, seen, results,
                   healthResp>>

(* InferWith without the exception handler of lines 86-94. *)
InferWithUncaught(r, content, res) ==
    /\ pc[r] = "stored"
    /\ seen' = [seen EXCEPT ![r] = content]
    /\ results' = [results EXCEPT ![r] = res]
    /\ LET out == Select(model, res)
       IN  IF out.ok
           THEN /\ resp' = Reply(r, Success(FileName(ts[r]), out.label,
                                           out.confidence))
                /\ pc' = [pc EXCEPT ![r] = "responded"]
           ELSE /\ resp' = resp
                /\ pc' = [pc EXCEPT ![r] = "failed"]
    /\ UNCHANGED <<startupVars, clock, files, body, ts, opened, ioError,
                   healthResp>>

(* Lines 65-102: the detector has read `content` from filepath and        *)
(* returned or raised `res`; the best box is selected and the answer sent. *)
InferWith(r, content, res) ==
    /\ pc[r] = "stored"
    /\ seen' = [seen EXCEPT ![r] = content]
    /\ results' = [results EXCEPT ![r] = res]
    /\ LET out == Select(model, res)
       IN  IF out.ok
           THEN /\ resp' = Reply(r, Success(FileName(ts[r]), out.label,
                                           out.confidence))
                /\ pc' = [pc EXCEPT ![r] = "responded"]
           ELSE /\ resp' = Reply(r, InferenceFailed(out.error))
                /\ pc' = [pc EXCEPT ![r] = "failed"]
    /\ UNCHANGED <<startupVars, clock, files, body, ts, opened, ioError,
                   healthResp>>

(* Line 67 with the detector of this model: a function of the file's       *)
(* content at the time of the call.                                        *)
Infer(r) ==
    InferWith(r, files[FileName(ts[r])], DetectorRun(files[FileName(ts[r])]))

-----------------------------------------------------------------------------
(* health(), lines 111-123, behind the URL dispatch of the framework: a    *)
(* path without a registered rule is answered 404 by the framework.  The   *)
(* introspection of a loaded handle raises nothing, so the handler's       *)
(* except branch is not taken.                                             *)

HealthHandler ==
    LET loaded == model # "none"
        names == NamesOf(model)
    IN  [code |-> 200, status |-> IF loaded THEN "ok" ELSE "error",
         model_loaded |-> loaded, classes |-> Cardinality(DOMAIN names)]

Health ==
    /\ boot = "serving"
    /\ healthResp' = IF "/health" \in routes THEN HealthHandler ELSE NotFound
    /\ UNCHANGED <<startupVars, clock, files, requestVars>>

-----------------------------------------------------------------------------
Startup ==
    \/ \E ok \in BOOLEAN : LoadPrimary(ok)
    \/ \E ok \in BOOLEAN : LoadFallback(ok)
    \/ RegisterUpload
    \/ MainGuard
    \/ RegisterHealth

Handle(r) ==
    \/ \E ok \in BOOLEAN : OpenFile(r, ok)
    \/ \E k \in 0..Len(body[r]) : WriteFile(r, k)
    \/ Infer(r)

Next ==
    \/ Startup
    \/ Tick
    \/ \E r \in Requests : \E b \in Payloads : Receive(r, b)
    \/ \E r \in Requests : Handle(r)
    \/ Health

Spec == Init /\ [][Next]_vars

(* The scenario of the same image submitted twice: the only requests are   *)
(* the two of TwiceRequests, and both carry the same image bytes.          *)
Images == { b \in AllPayloads : Decodes(b) }

ReceiveSame(r, b) ==
    /\ \A q \in TwiceRequests : pc[q] # "idle" => body[q] = b
    /\ Receive(r, b)

NextTwice ==
    \/ Startup
    \/ Tick
    \/ \E r \in TwiceRequests : \E b \in Images : ReceiveSame(r, b)
    \/ \E r \in TwiceRequests : Handle(r)

SpecTwice == Init /\ [][NextTwice]_vars

(* The selection scenario: one request with an image, and a detector that  *)
(* may return any result: it raises, it has no boxes, or it holds up to    *)
(* MaxBoxes boxes of any class and score.                                  *)
Boxes == { BoxOf(v) : v \in 0..19 }

Raises == { "", "Image Read Error" }

InferAny(r, exc, hasBoxes, boxes) ==
    /\ exc # "" => ~hasBoxes
    /\ ~hasBoxes => boxes = <<>>
    /\ InferWith(r, files[FileName(ts[r])],
                 [exc |-> exc, hasBoxes |-> hasBoxes, boxes |-> boxes])

NextSelect ==
    \/ Startup
    \/ \E r \in SelectRequests : Receive(r, Marker)
    \/ \E r \in SelectRequests : \E ok \in BOOLEAN : OpenFile(r, ok)
    \/ \E r \in SelectRequests : \E k \in 0..Len(body[r]) : WriteFile(r, k)
    \/ \E r \in SelectRequests :
          /\ pc[r] = "stored"
          /\ \E exc \in Raises, hasBoxes \in BOOLEAN :
                \E n \in 0..MaxBoxes : \E boxes \in [1..n -> Boxes] :
                   InferAny(r, exc, hasBoxes, boxes)

SpecSelect == Init /\ [][NextSelect]_vars

-----------------------------------------------------------------------------
(* Properties.                                                             *)

Finished(r) == pc[r] \in {"responded", "failed"}
DetectorInvoked(r) == seen[r] # NotRead
Invalid(b) == b # <<>> /\ ~Decodes(b)
SomeFileExists == \E f \in FileNames : files[f] # Absent

(* C1: a non-empty body that does not decode as an image is answered 400   *)
(* "Invalid image data"; no file is written and the detector is not        *)
(* invoked for it.                                                         *)
C1_InvalidImageRejected ==
    \A r \in Requests :
        (pc[r] # "idle" /\ Invalid(body[r]))
            => /\ ~opened[r]
               /\ ~DetectorInvoked(r)
               /\ Finished(r) => resp[r] = <<InvalidImageData>>

(* C2: a zero-length body is answered 400 "No image data", with no file    *)
(* opened for writing and no detector call by that request.                *)
C2_EmptyBodyRejected ==
    \A r \in Requests :
        (pc[r] # "idle" /\ body[r] = <<>>)
            => /\ pc[r] = "failed"
               /\ resp[r] = <<NoImageData>>
               /\ ~opened[r]
               /\ ~ioError[r]
               /\ ~DetectorInvoked(r)

C2_Witness ==
    \E r \in Requests :
        /\ pc[r] = "failed"
        /\ body[r] = <<>>
        /\ SomeFileExists

(* C3: a request passes RECEIVED, VALIDATED, STORED, INFERRED, RESPONDED   *)
(* in order: its file is written only after the body passed the emptiness  *)
(* and the decode check, the detector runs only after the file was         *)
(* stored, and a failed request does nothing further.                      *)
C3_PipelineOrder ==
    \A r \in Requests :
        /\ (opened[r] \/ pc[r] \in {"opened", "stored", "responded"})
               => (body[r] # <<>> /\ Decodes(body[r]))
        /\ DetectorInvoked(r) => opened[r]
        /\ pc[r] = "responded" => DetectorInvoked(r)
        /\ pc[r] = "failed" => (Len(resp[r]) = 1 /\ resp[r][1].code # 200)

(* The part of C3 that does not mention the decode check. *)
C3_OrderWithoutDecode ==
    \A r \in Requests :
        /\ (opened[r] \/ pc[r] \in {"opened", "stored", "responded"})
               => body[r] # <<>>
        /\ DetectorInvoked(r) => opened[r]
        /\ pc[r] = "responded" => DetectorInvoked(r)
        /\ pc[r] = "failed" => (Len(resp[r]) = 1 /\ resp[r][1].code # 200)

(* C4: each load is attempted at most once, the fallback only after the    *)
(* primary failed; a process whose loads both failed serves nothing; a     *)
(* request is handled only with a loaded model, and once the process       *)
(* serves, no step assigns the model again.                                *)
Served == (\E r \in Requests : pc[r] # "idle") \/ healthResp # NoResponse

C4_StartupState ==
    /\ loads.primary <= 1 /\ loads.fallback <= 1
    /\ loads.fallback = 1 => (loads.primary = 1 /\ model # "primary")
    /\ boot = "aborted" => (model = "none" /\ loads.fallback = 1 /\ ~Served)
    /\ Served => boot = "serving"
    /\ boot = "serving"
          => /\ model \in {"primary", "fallback"}
             /\ loads.primary = 1
             /\ (model = "fallback") <=> (loads.fallback = 1)

C4_ModelGate ==
    /\ []C4_StartupState
    /\ [][boot = "serving" => (model' = model /\ loads' = loads)]_vars

C4_Witness ==
    /\ model = "fallback"
    /\ \E r \in Requests : pc[r] = "responded"
    /\ healthResp # NoResponse

(* C5: a success response carries the reference selection over the         *)
(* detector's boxes: ("No disease", "0%") without boxes, else the name of  *)
(* the class of the first box of maximal score and that score as a         *)
(* percentage with one decimal; and inference that meets no exception      *)
(* ends in a success response.                                             *)
RefBest(boxes) ==
    CHOOSE i \in 1..Len(boxes) :
        /\ \A j \in 1..Len(boxes) : boxes[j].conf <= boxes[i].conf
        /\ \A j \in 1..(i - 1) : boxes[j].conf < boxes[i].conf

RefPercent(conf) ==
    LET tenths == CHOOSE t \in (conf \div 10)..(conf \div 10 + 1) :
                      /\ 10 * t - conf < 5
                      /\ conf - 10 * t < 5
    IN  ToString(tenths \div 10) \o "." \o ToString(tenths % 10) \o "%"

RefRaises(names, res) ==
    \/ res.exc # ""
    \/ /\ res.hasBoxes
       /\ Len(res.boxes) > 0
       /\ res.boxes[RefBest(res.boxes)].cls \notin DOMAIN names

RefSelect(names, res) ==
    IF ~res.hasBoxes \/ Len(res.boxes) = 0
    THEN <<"No disease", "0%">>
    ELSE LET b == res.boxes[RefBest(res.boxes)]
         IN  <<names[b.cls], RefPercent(b.conf)>>

C5_BestDetection ==
    \A r \in Requests :
        /\ pc[r] = "responded"
              => /\ Len(resp[r]) = 1
                 /\ resp[r][1].code = 200
                 /\ <<resp[r][1].result, resp[r][1].confidence>>
                        = RefSelect(NamesOf(model), results[r])
        /\ (DetectorInvoked(r) /\ ~RefRaises(NamesOf(model), results[r]))
              => pc[r] = "responded"

C5_Witness ==
    \E r \in Requests :
        /\ pc[r] = "responded"
        /\ Len(results[r].boxes) = 3
        /\ results[r].boxes[1].conf < results[r].boxes[2].conf
        /\ results[r].boxes[2].conf = results[r].boxes[3].conf
        /\ results[r].boxes[2].cls # results[r].boxes[3].cls
        /\ resp[r][1].confidence = "92.0%"

(* C6: when the open or the write raises, the request is answered 500      *)
(* "Failed to save image" and the detector is never invoked for it.        *)
C6_SaveFailure ==
    \A r \in Requests :
        ioError[r]
            => /\ pc[r] = "failed"
               /\ resp[r] = <<FailedToSave>>
               /\ ~DetectorInvoked(r)

C6_Witness ==
    \E r \in Requests :
        /\ ioError[r]
        /\ opened[r]
        /\ Len(files[FileName(ts[r])]) \in 1..(Len(body[r]) - 1)

(* C7: an exception of the inference step (the detector raising, or the    *)
(* best box's class id missing from the name table) is answered 500        *)
(* "Model inference failed" with the exception's text; a finished request  *)
(* has exactly one response, of code 200, 400 or 500, and an unfinished    *)
(* one has none.                                                           *)
RefErrorText(names, res) ==
    IF res.exc # "" THEN res.exc
    ELSE ToString(res.boxes[RefBest(res.boxes)].cls)

C7_InferenceFailure ==
    \A r \in Requests :
        /\ (DetectorInvoked(r) /\ RefRaises(NamesOf(model), results[r]))
              => /\ pc[r] = "failed"
                 /\ resp[r] = <<InferenceFailed(
                                   RefErrorText(NamesOf(model), results[r]))>>
        /\ Finished(r) => (Len(resp[r]) = 1 /\ resp[r][1].code \in {200, 400, 500})
        /\ ~Finished(r) => resp[r] = <<>>

C7_Witness ==
    \E r, q \in Requests :
        /\ pc[r] = "failed" /\ results[r].exc = "Image Read Error"
        /\ pc[q] = "failed" /\ results[q].exc = "" /\ DetectorInvoked(q)

(* C8: the same image bytes submitted in two requests with different       *)
(* timestamps: unless a save fails, both get the same outcome; two         *)
(* success responses name two distinct files, each holding exactly the     *)
(* submitted bytes, and carry the same result and confidence.              *)
C8_SameBytesTwice ==
    \A r, q \in TwiceRequests :
        (/\ r # q
         /\ Finished(r) /\ Finished(q)
         /\ body[r] = body[q] /\ Decodes(body[r])
         /\ ts[r] # ts[q])
            => LET a == resp[r][1]
                   b == resp[q][1]
               IN  /\ (~ioError[r] /\ ~ioError[q]) => a.code = b.code
                   /\ (~ioError[r] /\ ~RefRaises(NamesOf(model),
                                                 DetectorRun(body[r])))
                          => a.code = 200
                   /\ (a.code = 200 /\ b.code = 200)
                          => /\ a.image # b.image
                             /\ files[a.image] = body[r]
                             /\ files[b.image] = body[q]
                             /\ a.result = b.result
                             /\ a.confidence = b.confidence

C8_Witness ==
    \E r, q \in TwiceRequests :
        /\ r # q
        /\ pc[r] = "responded" /\ pc[q] = "responded"
        /\ ts[r] # ts[q]
        /\ body[r] = <<255, 7, 2>> /\ body[q] = <<255, 7, 2>>

(* C9: every GET /health to the serving process is answered 200 with       *)
(* status "ok", model_loaded true and a positive classes count.            *)
C9_HealthOk ==
    healthResp # NoResponse
        => /\ healthResp.code = 200
           /\ healthResp.status = "ok"
           /\ healthResp.model_loaded
           /\ healthResp.classes > 0

(* C10: whatever the interleaving of the requests, the content the         *)
(* detector read for a request answered with success is exactly that       *)
(* request's bytes, and the answer is the detection of those bytes.        *)
C10_OwnBytesRead ==
    \A r \in Requests :
        pc[r] = "responded"
            => /\ seen[r] = body[r]
               /\ <<resp[r][1].result, resp[r][1].confidence>>
                      = RefSelect(NamesOf(model), DetectorRun(body[r]))

=============================================================================
